---- MODULE Spec2Model ----
(***************************************************************************)
(* Model of the attribute storage and retrieval system: the cached log     *)
(* reader (src/src/log_processor.py), the attribute base class and its     *)
(* four variants (src/src/attribute.py, src/src/attribute_types.py), the   *)
(* registry (src/src/registry.py) and the evaluators and reducer that      *)
(* src/main.py attaches to the attributes.                                 *)
(*                                                                         *)
(* Text is modelled as TLA+ strings, a file as one string with its line    *)
(* terminators.  A Python number is a record [t, num, den]: t tells int    *)
(* from float and num/den is the value as a reduced fraction, so that the  *)
(* decimal fields of a log line and sums and averages of them are exact.   *)
(* Not modelled: binary rounding of floats; the exponent, "inf", "nan"     *)
(* and "_" forms float() also accepts; regular-expression metacharacters   *)
(* in an attribute name (every name used here is a literal pattern).       *)
(***************************************************************************)
EXTENDS Integers, Sequences, FiniteSets, TLC

(***************************************************************************)
(* Bounds of the model.                                                    *)
(***************************************************************************)
\* how many of AllFiles the environment may put on disk
MaxFiles == 3

(***************************************************************************)
(* Python values.                                                          *)
(***************************************************************************)
None == [t |-> "None"]

Abs(i) == IF i < 0 THEN -i ELSE i

RECURSIVE Gcd(_, _)
Gcd(a, b) == IF b = 0 THEN a ELSE Gcd(b, a % b)

\* the number n/d (d > 0) of Python type t, as a reduced fraction
Num(t, n, d) ==
    LET g == Gcd(Abs(n), d)
    IN  [t |-> t, num |-> n \div g, den |-> d \div g]

PyInt(n) == [t |-> "int", num |-> n, den |-> 1]

PyFloat(n, d) == Num("float", n, d)

IsNum(v) == v.t \in {"int", "float"}

\* float(x) of a number: the same value, of type float
ToFloat(v) == [t |-> "float", num |-> v.num, den |-> v.den]

\* int(x) of a number: the value truncated towards zero
ToInt(v) ==
    IF v.num >= 0 THEN PyInt(v.num \div v.den)
    ELSE PyInt(-((-v.num) \div v.den))

\* a + b; the sum is an int only when both are
NumAdd(a, b) ==
    Num(IF a.t = "int" /\ b.t = "int" THEN "int" ELSE "float",
        a.num * b.den + b.num * a.den, a.den * b.den)

\* a / n for an int n > 0: true division, always a float
NumDiv(a, n) == Num("float", a.num, a.den * n)

NumLeq(a, b) == a.num * b.den <= b.num * a.den

\* a > k for an integer threshold k
NumGt(a, k) == a.num > k * a.den

\* a >= k for an integer threshold k
NumGeq(a, k) == a.num >= k * a.den

(***************************************************************************)
(* Text: str.upper, str.strip, str.split(":")[-1], re.search with          *)
(* re.IGNORECASE, file.readlines and float(str).                           *)
(***************************************************************************)
Lower == "abcdefghijklmnopqrstuvwxyz"
Upper == "ABCDEFGHIJKLMNOPQRSTUVWXYZ"
Digits == "0123456789"

Ch(s, i) == SubSeq(s, i, i)

\* 0, or the position of the one-character string c in s
IndexIn(c, s) ==
    IF \E i \in 1..Len(s) : Ch(s, i) = c
    THEN CHOOSE i \in 1..Len(s) : Ch(s, i) = c
    ELSE 0

UpperChar(c) ==
    LET i == IndexIn(c, Lower) IN IF i = 0 THEN c ELSE Ch(Upper, i)

RECURSIVE ToUpper(_)
ToUpper(s) == IF s = "" THEN "" ELSE UpperChar(Head(s)) \o ToUpper(Tail(s))

IsSpace(c) == c \in {" ", "\t", "\n", "\r"}

RECURSIVE LStrip(_)
LStrip(s) == IF s # "" /\ IsSpace(Head(s)) THEN LStrip(Tail(s)) ELSE s

RECURSIVE RStrip(_)
RStrip(s) ==
    IF s # "" /\ IsSpace(Ch(s, Len(s)))
    THEN RStrip(SubSeq(s, 1, Len(s) - 1))
    ELSE s

Strip(s) == RStrip(LStrip(s))

\* s.split(":")[-1]: what follows the last ':', or all of s
LastField(s) ==
    LET cut == {i \in 1..Len(s) : Ch(s, i) = ":"}
    IN  IF cut = {} THEN s
        ELSE LET last == CHOOSE i \in cut : \A j \in cut : j <= i
             IN  SubSeq(s, last + 1, Len(s))

\* re.search(pattern, line, re.IGNORECASE) for a literal pattern
Search(pattern, line) ==
    \E i \in 1..(Len(line) - Len(pattern) + 1) :
        ToUpper(SubSeq(line, i, i + Len(pattern) - 1)) = ToUpper(pattern)

\* file.readlines(): the lines of the text, each with its terminator
RECURSIVE ReadLines(_)
ReadLines(text) ==
    IF text = "" THEN <<>>
    ELSE LET nl == {i \in 1..Len(text) : Ch(text, i) = "\n"}
         IN  IF nl = {} THEN <<text>>
             ELSE LET first == CHOOSE i \in nl : \A j \in nl : i <= j
                  IN  <<SubSeq(text, 1, first)>>
                        \o ReadLines(SubSeq(text, first + 1, Len(text)))

AllDigits(s) == \A i \in 1..Len(s) : IndexIn(Ch(s, i), Digits) # 0

RECURSIVE DigitsValue(_)
DigitsValue(s) ==
    IF s = "" THEN 0
    ELSE 10 * DigitsValue(SubSeq(s, 1, Len(s) - 1))
           + (IndexIn(Ch(s, Len(s)), Digits) - 1)

RECURSIVE Pow10(_)
Pow10(k) == IF k = 0 THEN 1 ELSE 10 * Pow10(k - 1)

\* float(s): [ok |-> FALSE] stands for ValueError
ParseFloat(s) ==
    LET body == Strip(s)
        neg  == body # "" /\ Head(body) = "-"
        sgn  == body # "" /\ Head(body) \in {"-", "+"}
        mant == IF sgn THEN Tail(body) ELSE body
        dots == {i \in 1..Len(mant) : Ch(mant, i) = "."}
        dot  == IF dots = {} THEN Len(mant) + 1 ELSE CHOOSE i \in dots : TRUE
        ip   == SubSeq(mant, 1, dot - 1)
        fp   == SubSeq(mant, dot + 1, Len(mant))
        good == /\ Cardinality(dots) <= 1
                /\ AllDigits(ip) /\ AllDigits(fp)
                /\ Len(ip) + Len(fp) > 0
        mag  == DigitsValue(ip) * Pow10(Len(fp)) + DigitsValue(fp)
    IN  IF good
        THEN [ok |-> TRUE,
              v |-> PyFloat(IF neg THEN -mag ELSE mag, Pow10(Len(fp)))]
        ELSE [ok |-> FALSE, v |-> None]

(***************************************************************************)
(* The inputs of the model: log files, paths, attribute names.             *)
(***************************************************************************)
AllFiles ==
    << "STATUS: 200\nstatus: 404\nSTATUS: 503\n",
       "TIME: 1.5\nTIME: bad\nTIME: 2.5\n",
       "STATUS: 404\nprocess_time: 12\nSTATUS: down\n",
       "boot ok\nTIME: 1500" >>

Files == {AllFiles[i] : i \in 1..MaxFiles}

Paths == {"a.log", "b.log"}

\* a str argument, as opposed to None
Str(s) == [t |-> "str", s |-> s]

\* what a caller may pass for a path: a path, the empty string or None
PathArgs == {Str(p) : p \in Paths \cup {""}} \cup {None}

Names == {"STATUS", "TIME"}

Patterns == {Str(n) : n \in Names} \cup {None}

(***************************************************************************)
(* The text operators on the model's inputs, computed once.                *)
(***************************************************************************)
\* file.readlines() of every file
FileLines == [text \in Files |-> ReadLines(text)]

AllLines == UNION {{FileLines[text][i] : i \in DOMAIN FileLines[text]} : text \in Files}

\* line.strip() of every line
Stripped == [line \in AllLines |-> Strip(line)]

\* re.search(pattern, line, re.IGNORECASE) for every line and pattern
LineMatches ==
    [line \in AllLines |-> [pat \in {ToUpper(n) : n \in Names} \cup Names |-> Search(pat, line)]]

(***************************************************************************)
(* LogProcessor: the class-level cache and the cached reader.              *)
(***************************************************************************)
\* the 'for line in cache[path]' loop: the stripped lines that match
RECURSIVE MatchingLines(_, _)
MatchingLines(lines, pattern) ==
    IF lines = <<>> THEN <<>>
    ELSE LET line == Head(lines)
             rest == MatchingLines(Tail(lines), pattern)
         IN  IF pattern = None \/ LineMatches[line][pattern.s]
             THEN <<Stripped[line]>> \o rest
             ELSE rest

\* open(path, 'r') fails: no such file (the empty path names no file)
OpenFails(d, path) == path \notin DOMAIN d

\* the 'if logfile_path not in cls._file_cache' test
CacheMiss(c, path) == path \notin DOMAIN c

\* cls._file_cache[path] = file.readlines()
CacheStore(c, path, text) ==
    [q \in DOMAIN c \cup {path} |-> IF q = path THEN FileLines[text] ELSE c[q]]

\* process_log without its 'not in cls._file_cache' test: every call reads
ProcessLogUncached(c, d, path, pattern) ==
    IF OpenFails(d, path)
    THEN IF CacheMiss(c, path)
         THEN [raised |-> "FileNotFoundError", cache |-> c,
               diskRead |-> FALSE, lines |-> <<>>]
         ELSE [raised |-> "", cache |-> c, diskRead |-> FALSE,
               lines |-> MatchingLines(c[path], pattern)]
    ELSE LET c2 == CacheStore(c, path, d[path])
         IN  [raised |-> "", cache |-> c2, diskRead |-> TRUE,
              lines |-> MatchingLines(c2[path], pattern)]

\* process_log that enters the path in the cache before it opens the file
ProcessLogStoresFirst(c, d, path, pattern) ==
    IF CacheMiss(c, path)
    THEN IF OpenFails(d, path)
         THEN [raised |-> "FileNotFoundError",
               cache |-> [q \in DOMAIN c \cup {path} |-> IF q = path THEN <<>> ELSE c[q]],
               diskRead |-> FALSE, lines |-> <<>>]
         ELSE LET c2 == CacheStore(c, path, d[path])
              IN  [raised |-> "", cache |-> c2, diskRead |-> TRUE,
                   lines |-> MatchingLines(c2[path], pattern)]
    ELSE [raised |-> "", cache |-> c, diskRead |-> FALSE,
          lines |-> MatchingLines(c[path], pattern)]

\* LogProcessor.process_log, run to its end, on cache c and disk d:
\* what it raises, the cache it leaves, whether it read the disk, its lines
ProcessLog(c, d, path, pattern) ==
    IF CacheMiss(c, path)
    THEN IF OpenFails(d, path)
         THEN [raised |-> "FileNotFoundError", cache |-> c,
               diskRead |-> FALSE, lines |-> <<>>]
         ELSE LET c2 == CacheStore(c, path, d[path])
              IN  [raised |-> "", cache |-> c2, diskRead |-> TRUE,
                   lines |-> MatchingLines(c2[path], pattern)]
    ELSE [raised |-> "", cache |-> c, diskRead |-> FALSE,
          lines |-> MatchingLines(c[path], pattern)]

\* the 'if logfile_path:' test of clear_cache: None and "" are falsy
Truthy(arg) == arg # None /\ arg.s # ""

\* LogProcessor.clear_cache
ClearCacheOf(c, arg) ==
    IF Truthy(arg)
    THEN [q \in DOMAIN c \ {arg.s} |-> c[q]]
    ELSE [q \in {} |-> <<>>]

(***************************************************************************)
(* Status, CriticalityLevel and the evaluators of src/main.py.             *)
(***************************************************************************)
Status == {"OK", "WARNING", "ERROR"}

CriticalityLevel == {"CRITICAL", "RELAXED"}

\* the thresholds without the 'if current_val is None' guard: None is compared
ThresholdUnguarded(cur, errorIf, warningIf) ==
    IF ~IsNum(cur) THEN [raised |-> "TypeError", status |-> ""]
    ELSE IF errorIf THEN [raised |-> "", status |-> "ERROR"]
    ELSE IF warningIf THEN [raised |-> "", status |-> "WARNING"]
    ELSE [raised |-> "", status |-> "OK"]

\* the shape shared by evaluate_status_code, evaluate_latency, ...:
\* OK for None, else ERROR / WARNING / OK by two thresholds
Threshold(cur, errorIf, warningIf) ==
    IF cur = None THEN [raised |-> "", status |-> "OK"]
    ELSE IF ~IsNum(cur) THEN [raised |-> "TypeError", status |-> ""]
    ELSE IF errorIf THEN [raised |-> "", status |-> "ERROR"]
    ELSE IF warningIf THEN [raised |-> "", status |-> "WARNING"]
    ELSE [raised |-> "", status |-> "OK"]

evaluate_status_code(last_val, cur) ==
    Threshold(cur, IsNum(cur) /\ NumGeq(cur, 500), IsNum(cur) /\ NumGeq(cur, 400))

evaluate_latency(last_val, cur) ==
    Threshold(cur, IsNum(cur) /\ NumGt(cur, 1000), IsNum(cur) /\ NumGt(cur, 300))

evaluate_error_count(last_val, cur) ==
    Threshold(cur, IsNum(cur) /\ NumGt(cur, 5), IsNum(cur) /\ NumGt(cur, 2))

evaluate_memory(last_val, cur) ==
    Threshold(cur, IsNum(cur) /\ NumGt(cur, 1024), IsNum(cur) /\ NumGt(cur, 512))

evaluate_accumulated_time(last_val, cur) ==
    Threshold(cur, IsNum(cur) /\ NumGt(cur, 20), IsNum(cur) /\ NumGt(cur, 10))

\* dict.get(key, 0) on the items of a record value
DictGet(items, key) ==
    IF \E i \in DOMAIN items : items[i][1] = key
    THEN items[CHOOSE i \in DOMAIN items : items[i][1] = key][2]
    ELSE PyInt(0)

\* the evaluator of RESPONSE_TIME: the 'p95' key is never in the record
evaluate_percentiles(last_val, cur) ==
    IF cur = None THEN [raised |-> "", status |-> "OK"]
    ELSE IF cur.t # "dict" THEN [raised |-> "AttributeError", status |-> ""]
    ELSE IF NumGt(DictGet(cur.items, "p99"), 1000)
         THEN [raised |-> "", status |-> "ERROR"]
    ELSE IF NumGt(DictGet(cur.items, "p95"), 500)
         THEN [raised |-> "", status |-> "WARNING"]
    ELSE [raised |-> "", status |-> "OK"]

\* 'lambda last, current: Status.OK' and the default_evaluator of from_dict
always_ok(last_val, cur) == [raised |-> "", status |-> "OK"]

\* self._evaluator(previous_value, self._value)
Evaluator(ev, last_val, cur) ==
    CASE ev = "evaluate_status_code"      -> evaluate_status_code(last_val, cur)
      [] ev = "evaluate_latency"          -> evaluate_latency(last_val, cur)
      [] ev = "evaluate_error_count"      -> evaluate_error_count(last_val, cur)
      [] ev = "evaluate_memory"           -> evaluate_memory(last_val, cur)
      [] ev = "evaluate_accumulated_time" -> evaluate_accumulated_time(last_val, cur)
      [] ev = "evaluate_percentiles"      -> evaluate_percentiles(last_val, cur)
      [] ev = "lambda_ok"                 -> always_ok(last_val, cur)
      [] ev = "default_evaluator"         -> always_ok(last_val, cur)

(***************************************************************************)
(* Attribute: construction, fill_value, evaluate.                          *)
(***************************************************************************)
\* Attribute.__init__: the value starts as None
NewAttribute(cls, name, criticality, evaluator, fn) ==
    [cls |-> cls, name |-> name, criticality |-> criticality,
     evaluator |-> evaluator, fn |-> fn, value |-> None]

fill_value(a, value) == [a EXCEPT !.value = value]

\* an escalation that lets the evaluator's own WARNING or ERROR through
EscalateThreaded(criticality, raw) == raw

\* the escalation of a raw status by the attribute's criticality
Escalate(criticality, raw) ==
    IF raw # "OK"
    THEN IF criticality = "CRITICAL" THEN "ERROR" ELSE "WARNING"
    ELSE "OK"

\* Attribute.evaluate: what it raises, the evaluator's raw status, the result
AttributeEvaluate(a, previous_value) ==
    LET r == Evaluator(a.evaluator, previous_value, a.value)
    IN  IF r.raised # ""
        THEN [raised |-> r.raised, raw |-> "", status |-> ""]
        ELSE [raised |-> "", raw |-> r.status,
              status |-> Escalate(a.criticality, r.status)]

(***************************************************************************)
(* The extractor of an accumulator and the reducer of a complex attribute. *)
(***************************************************************************)
\* float(line.split(":")[-1].strip())
ExtractFloat(line) == ParseFloat(Strip(LastField(line)))

\* the same, computed once for every line the reader can return
LineValue == [line \in {Stripped[l] : l \in AllLines} |-> ExtractFloat(line)]

FloatOfLine(line) == LineValue[line]

\* the values of the lines that parse, in order
RECURSIVE ParsedValues(_)
ParsedValues(lines) ==
    IF lines = <<>> THEN <<>>
    ELSE LET r == FloatOfLine(Head(lines))
         IN  (IF r.ok THEN <<r.v>> ELSE <<>>) \o ParsedValues(Tail(lines))

RECURSIVE InsertSorted(_, _)
InsertSorted(v, sorted) ==
    IF sorted = <<>> THEN <<v>>
    ELSE IF NumLeq(v, Head(sorted)) THEN <<v>> \o sorted
    ELSE <<Head(sorted)>> \o InsertSorted(v, Tail(sorted))

\* values.sort()
RECURSIVE Sorted(_)
Sorted(values) ==
    IF values = <<>> THEN <<>>
    ELSE InsertSorted(Head(values), Sorted(Tail(values)))

\* sum(values): starts from the int 0
RECURSIVE Sum(_)
Sum(values) ==
    IF values = <<>> THEN PyInt(0)
    ELSE NumAdd(Sum(SubSeq(values, 1, Len(values) - 1)), values[Len(values)])

\* values[int(n * pct / 100)], 0-based in the source
Percentile(values, pct) == values[((Len(values) * pct) \div 100) + 1]

Dict(items) == [t |-> "dict", items |-> items]

calculate_percentiles(lines) ==
    LET values == Sorted(ParsedValues(lines))
        n == Len(values)
    IN  IF n = 0
        THEN Dict(<< <<"min", PyInt(0)>>, <<"p50", PyInt(0)>>,
                     <<"p90", PyInt(0)>>, <<"p99", PyInt(0)>>,
                     <<"max", PyInt(0)>> >>)
        ELSE Dict(<< <<"min", values[1]>>,
                     <<"p50", Percentile(values, 50)>>,
                     <<"p90", IF n > 1 THEN Percentile(values, 90) ELSE values[1]>>,
                     <<"p99", IF n > 2 THEN Percentile(values, 99) ELSE values[1]>>,
                     <<"max", values[n]>>,
                     <<"count", PyInt(n)>>,
                     <<"avg", NumDiv(Sum(values), n)>> >>)

\* the default_processor that from_dict attaches
default_processor(lines) == Dict(<< <<"value", PyInt(Len(lines))>> >>)

\* self._processor(lines)
Processor(fn, lines) ==
    CASE fn = "calculate_percentiles" -> calculate_percentiles(lines)
      [] fn = "default_processor"     -> default_processor(lines)

(***************************************************************************)
(* The four variants: process_logfile on the lines the cached reader       *)
(* returned for the pattern name.upper(), to_dict and from_dict.           *)
(***************************************************************************)
Classes ==
    {"NumericAttribute", "CountAttribute", "AccumulatorAttribute", "ComplexAttribute"}

\* the pattern an attribute hands to LogProcessor.process_log
PatternOf(a) == Str(ToUpper(a.name))

\* a scalar extraction that takes the first match
NumericProcessFirst(a, matches) ==
    IF matches # <<>>
    THEN LET r == FloatOfLine(matches[1])
         IN  IF r.ok THEN fill_value(a, r.v) ELSE a
    ELSE a

\* a scalar extraction that falls back to the last match that parses
NumericProcessLastParsable(a, matches) ==
    LET values == ParsedValues(matches)
    IN  IF values # <<>> THEN fill_value(a, values[Len(values)]) ELSE a

\* NumericAttribute.process_logfile after the read
NumericProcess(a, matches) ==
    IF matches # <<>>
    THEN LET r == FloatOfLine(matches[Len(matches)])
         IN  IF r.ok THEN fill_value(a, r.v) ELSE a
    ELSE a

\* a count that is set only when some line matched
CountProcessSkipsEmpty(a, matches) ==
    IF matches # <<>> THEN fill_value(a, PyInt(Len(matches))) ELSE a

\* CountAttribute.process_logfile after the read
CountProcess(a, matches) == fill_value(a, PyInt(Len(matches)))

\* the accumulation loop: total += extractor(line), ValueError skipped
RECURSIVE Accumulate(_, _)
Accumulate(total, lines) ==
    IF lines = <<>> THEN total
    ELSE LET r == FloatOfLine(Head(lines))
         IN  Accumulate(IF r.ok THEN NumAdd(total, r.v) ELSE total, Tail(lines))

\* an accumulation that goes on from the value held before the pass
AccumulatorProcessCarry(a, matches) ==
    fill_value(a, Accumulate(IF a.value = None THEN PyFloat(0, 1) ELSE a.value, matches))

\* AccumulatorAttribute.process_logfile after the read
AccumulatorProcess(a, matches) ==
    fill_value(a, Accumulate(PyFloat(0, 1), matches))

\* a complex extraction without its 'if lines' test
ComplexProcessAlways(a, matches) == fill_value(a, Processor(a.fn, matches))

\* a complex extraction that sets an empty record when nothing matched
ComplexProcessEmptyRecord(a, matches) ==
    IF matches # <<>>
    THEN fill_value(a, Processor(a.fn, matches))
    ELSE fill_value(a, Dict(<<>>))

\* ComplexAttribute.process_logfile after the read
ComplexProcess(a, matches) ==
    IF matches # <<>> THEN fill_value(a, Processor(a.fn, matches)) ELSE a

\* process_logfile of the attribute's class, given the reader's lines
ProcessMatches(a, matches) ==
    CASE a.cls = "NumericAttribute"     -> NumericProcess(a, matches)
      [] a.cls = "CountAttribute"       -> CountProcess(a, matches)
      [] a.cls = "AccumulatorAttribute" -> AccumulatorProcess(a, matches)
      [] a.cls = "ComplexAttribute"     -> ComplexProcess(a, matches)

\* the 'type' tag of to_dict
TypeTag(cls) ==
    CASE cls = "NumericAttribute"     -> "numeric"
      [] cls = "CountAttribute"       -> "count"
      [] cls = "AccumulatorAttribute" -> "accumulator"
      [] cls = "ComplexAttribute"     -> "complex"

\* a JSON number: an int is written without a fraction part, a float with one
JsonNumber(v) ==
    [lit |-> IF v.t = "int" THEN "integer" ELSE "real", num |-> v.num, den |-> v.den]

\* json.dumps of a record: its members in insertion order
JsonDumps(v) ==
    [t |-> "json",
     members |-> [i \in DOMAIN v.items |-> <<v.items[i][1], JsonNumber(v.items[i][2])>>]]

\* a json.loads that reads every number as a float
JsonLoadsAllFloat(doc) ==
    Dict([i \in DOMAIN doc.members |->
            <<doc.members[i][1],
              [t |-> "float", num |-> doc.members[i][2].num, den |-> doc.members[i][2].den]>>])

\* json.loads: a number without a fraction part is an int, else a float
JsonLoads(doc) ==
    Dict([i \in DOMAIN doc.members |->
            LET m == doc.members[i]
            IN  <<m[1], [t |-> IF m[2].lit = "integer" THEN "int" ELSE "float",
                         num |-> m[2].num, den |-> m[2].den]>>])

\* to_dict of the attribute's class
ToDict(a) ==
    [name |-> a.name, type |-> TypeTag(a.cls), criticality |-> a.criticality,
     value |-> IF a.cls = "ComplexAttribute" /\ a.value # None
               THEN JsonDumps(a.value) ELSE a.value]

\* the conversion from_dict applies to a value that is not None
LoadValue(cls, v) ==
    CASE cls = "NumericAttribute"     -> ToFloat(v)
      [] cls = "CountAttribute"       -> ToInt(v)
      [] cls = "AccumulatorAttribute" -> ToFloat(v)
      [] cls = "ComplexAttribute"     -> JsonLoads(v)

\* cls.from_dict(data): default evaluator, default extractor or processor
FromDict(cls, data) ==
    LET instance ==
            NewAttribute(cls, data.name, data.criticality, "default_evaluator",
                CASE cls = "AccumulatorAttribute" -> "default_extractor"
                  [] cls = "ComplexAttribute"     -> "default_processor"
                  [] OTHER                        -> "none")
    IN  IF data.value # None
        THEN fill_value(instance, LoadValue(cls, data.value))
        ELSE instance

\* the dispatch of load_attribute_from_db on the record's 'type'
Deserialize(data) ==
    CASE data.type = "numeric"     -> [raised |-> "", attr |-> FromDict("NumericAttribute", data)]
      [] data.type = "count"       -> [raised |-> "", attr |-> FromDict("CountAttribute", data)]
      [] data.type = "accumulator" -> [raised |-> "", attr |-> FromDict("AccumulatorAttribute", data)]
      [] data.type = "complex"     -> [raised |-> "", attr |-> FromDict("ComplexAttribute", data)]
      [] OTHER                     -> [raised |-> "ValueError", attr |-> None]

(***************************************************************************)
(* What may be constructed and registered.                                 *)
(***************************************************************************)
\* the evaluators src/main.py attaches to attributes of a class
EvaluatorsOf(cls) ==
    CASE cls = "NumericAttribute" ->
            {"evaluate_status_code", "evaluate_latency", "evaluate_memory"}
      [] cls = "CountAttribute" -> {"evaluate_error_count", "lambda_ok"}
      [] cls = "AccumulatorAttribute" -> {"evaluate_accumulated_time"}
      [] cls = "ComplexAttribute" -> {"evaluate_percentiles"}

\* the extractor or reducer src/main.py attaches to attributes of a class
FnOf(cls) ==
    CASE cls = "AccumulatorAttribute" -> "extractor"
      [] cls = "ComplexAttribute"     -> "calculate_percentiles"
      [] OTHER                        -> "none"

\* every attribute a caller may construct from these
Catalogue ==
    {NewAttribute(cls, name, crit, ev, FnOf(cls)) :
        <<cls, name, crit, ev>> \in
            {q \in Classes \X Names \X CriticalityLevel \X
                     UNION {EvaluatorsOf(c) : c \in Classes} :
                q[4] \in EvaluatorsOf(q[1])}}

\* the attributes of create_registry, one per class, under the model's names
Roster ==
    { NewAttribute("NumericAttribute", "STATUS", "CRITICAL", "evaluate_status_code", "none"),
      NewAttribute("CountAttribute", "STATUS", "CRITICAL", "evaluate_error_count", "none"),
      NewAttribute("AccumulatorAttribute", "TIME", "RELAXED",
                   "evaluate_accumulated_time", "extractor"),
      NewAttribute("ComplexAttribute", "TIME", "CRITICAL",
                   "evaluate_percentiles", "calculate_percentiles") }

\* previous values handed to evaluate
PrevValues == {None, PyFloat(1, 1)}

\* the previous_values argument of evaluate_all: None, or a dict by name
PrevMaps ==
    {None} \cup {[t |-> "dict", of |-> [n \in S |-> PyFloat(1, 1)]] : S \in SUBSET Names}

(***************************************************************************)
(* The state.                                                              *)
(***************************************************************************)
VARIABLES
    disk,   \* the file system: path -> text of the file, for the files that exist
    cache,  \* LogProcessor._file_cache: path -> lines
    attrs,  \* Registry._attributes: the attributes in the dict's order
    seen,   \* path -> the lines of the file when the reader first read it
            \* since the path was last invalidated (for verification only)
    last,   \* the last call: its arguments and what it returned or raised
    registered
            \* the attributes of the register_attribute calls that were not
            \* followed by another one under the same name, in the order of
            \* the calls (for verification only)

vars == <<disk, cache, attrs, seen, last, registered>>

EmptyMap == [q \in {} |-> <<>>]

Init ==
    /\ disk = EmptyMap
    /\ cache = EmptyMap
    /\ attrs = <<>>
    /\ seen = EmptyMap
    /\ last = [op |-> "init"]
    /\ registered = <<>>

(***************************************************************************)
(* One read of the cached reader, with its record.                         *)
(***************************************************************************)
\* a read by process_log from cache c, with the first-read lines s: the
\* cache and first-read lines after it, and the record of the read
ReadStep(c, s, path, pattern) ==
    LET r == ProcessLog(c, disk, path, pattern)
    IN  [cache |-> r.cache,
         seen  |-> IF r.raised = "" /\ path \notin DOMAIN s /\ path \in DOMAIN disk
                   THEN [q \in DOMAIN s \cup {path} |->
                            IF q = path THEN FileLines[disk[path]] ELSE s[q]]
                   ELSE s,
         rec   |-> [path |-> path, pattern |-> pattern, raised |-> r.raised,
                    diskRead |-> r.diskRead, lines |-> r.lines,
                    cached |-> ~CacheMiss(c, path),
                    onDisk |-> ~OpenFails(disk, path),
                    again  |-> path \in DOMAIN s]]

\* the first-read lines that an invalidation with this argument leaves
SeenAfterClear(s, arg) ==
    IF Truthy(arg)
    THEN [q \in DOMAIN s \ {arg.s} |-> s[q]]
    ELSE EmptyMap

(***************************************************************************)
(* The environment: a log file is written or removed.                      *)
(***************************************************************************)
WriteFile(path, text) ==
    /\ disk' = [q \in DOMAIN disk \cup {path} |-> IF q = path THEN text ELSE disk[q]]
    /\ last' = [op |-> "env"]
    /\ UNCHANGED <<cache, attrs, seen, registered>>

RemoveFile(path) ==
    /\ path \in DOMAIN disk
    /\ disk' = [q \in DOMAIN disk \ {path} |-> disk[q]]
    /\ last' = [op |-> "env"]
    /\ UNCHANGED <<cache, attrs, seen, registered>>

(***************************************************************************)
(* LogProcessor.                                                           *)
(***************************************************************************)
\* list(LogProcessor.process_log(path, pattern))
ReadLog(path, pattern) ==
    LET st == ReadStep(cache, seen, path, pattern)
    IN  /\ cache' = st.cache
        /\ seen' = st.seen
        /\ last' = [op |-> "process_log", reads |-> <<st.rec>>]
        /\ UNCHANGED <<disk, attrs, registered>>

\* LogProcessor.clear_cache(arg)
ClearCache(arg) ==
    /\ cache' = ClearCacheOf(cache, arg)
    /\ seen' = SeenAfterClear(seen, arg)
    /\ last' = [op |-> "clear_cache", arg |-> arg]
    /\ UNCHANGED <<disk, attrs, registered>>

NextCache ==
    \/ \E path \in Paths, text \in Files : WriteFile(path, text)
    \/ \E path \in Paths : RemoveFile(path)
    \/ \E path \in Paths \cup {""}, pattern \in Patterns : ReadLog(path, pattern)
    \/ \E arg \in PathArgs : ClearCache(arg)

SpecCache == Init /\ [][NextCache]_vars

(***************************************************************************)
(* One attribute: process_logfile, evaluate, to_dict and from_dict.        *)
(***************************************************************************)
\* attribute.process_logfile(path) on the i-th registered attribute
AttrProcessLogfile(i, path) ==
    LET a  == attrs[i]
        st == ReadStep(cache, seen, path, PatternOf(a))
    IN  /\ cache' = st.cache
        /\ seen' = st.seen
        /\ attrs' = IF st.rec.raised = ""
                    THEN [attrs EXCEPT ![i] = ProcessMatches(a, st.rec.lines)]
                    ELSE attrs
        /\ last' = [op |-> "attribute.process_logfile", index |-> i,
                    before |-> a.value, raised |-> st.rec.raised,
                    reads |-> <<st.rec>>]
        /\ UNCHANGED <<disk, registered>>

\* an evaluate that keeps the previous value as the attribute's value
AttrEvaluateStores(i, previous_value) ==
    LET r == AttributeEvaluate(attrs[i], previous_value)
    IN  /\ attrs' = [attrs EXCEPT ![i] = fill_value(attrs[i], previous_value)]
        /\ last' = [op |-> "attribute.evaluate", index |-> i,
                    previous_value |-> previous_value,
                    raised |-> r.raised, raw |-> r.raw, status |-> r.status]
        /\ UNCHANGED <<disk, cache, seen, registered>>

\* attribute.evaluate(previous_value) on the i-th registered attribute
AttrEvaluate(i, previous_value) ==
    LET r == AttributeEvaluate(attrs[i], previous_value)
    IN  /\ last' = [op |-> "attribute.evaluate", index |-> i,
                    previous_value |-> previous_value,
                    raised |-> r.raised, raw |-> r.raw, status |-> r.status]
        /\ UNCHANGED <<disk, cache, attrs, seen, registered>>

\* the record of attribute.to_dict() and the attribute rebuilt from it
AttrRoundTrip(i) ==
    LET data == ToDict(attrs[i])
        r    == Deserialize(data)
    IN  /\ last' = [op |-> "round_trip", index |-> i, data |-> data,
                    raised |-> r.raised, copy |-> r.attr]
        /\ UNCHANGED <<disk, cache, attrs, seen, registered>>

(***************************************************************************)
(* AttributeRegistry.                                                      *)
(***************************************************************************)
\* a registration that keeps the attribute already held under the name
RegisterAttributeKeepsFirst(as, a) ==
    IF \E i \in DOMAIN as : as[i].name = a.name THEN as ELSE Append(as, a)

\* self._attributes[attribute.name] = attribute: a name already held keeps
\* its place in the dict, a new name goes to the end
RegisterAttribute(as, a) ==
    IF \E i \in DOMAIN as : as[i].name = a.name
    THEN [i \in DOMAIN as |-> IF as[i].name = a.name THEN a ELSE as[i]]
    ELSE Append(as, a)

\* the calls on record after register_attribute(a)
RegisteredAfter(reg, a) ==
    Append(SelectSeq(reg, LAMBDA e : e.name # a.name), a)

Register(a) ==
    /\ attrs' = RegisterAttribute(attrs, a)
    /\ registered' = RegisteredAfter(registered, a)
    /\ last' = [op |-> "register_attribute", name |-> a.name]
    /\ UNCHANGED <<disk, cache, seen>>

\* self._attributes.get(name): the attribute held under the name, or None
GetAttributeOf(as, name) ==
    IF \E i \in DOMAIN as : as[i].name = name
    THEN as[CHOOSE i \in DOMAIN as : as[i].name = name]
    ELSE None

\* the names callers ask the registry for
GetNames == Names \cup {"MEMORY"}

\* Registry.get_attribute(name)
GetAttribute(name) ==
    /\ last' = [op |-> "get_attribute", name |-> name,
                result |-> GetAttributeOf(attrs, name)]
    /\ UNCHANGED <<disk, cache, attrs, seen, registered>>

\* the loop of AttributeRegistry.process_logfile after i attributes: the
\* cache, the first-read lines and the reads so far; an exception of an
\* attribute's process_logfile leaves the loop
RECURSIVE PassAfter(_, _)
PassAfter(i, path) ==
    IF i = 0
    THEN [cache |-> cache, seen |-> seen, raised |-> "", reads |-> <<>>]
    ELSE LET prev == PassAfter(i - 1, path)
         IN  IF prev.raised # "" THEN prev
             ELSE LET st == ReadStep(prev.cache, prev.seen, path, PatternOf(attrs[i]))
                  IN  [cache |-> st.cache, seen |-> st.seen,
                       raised |-> st.rec.raised,
                       reads |-> Append(prev.reads, st.rec)]

\* Registry.process_logfile(path)
RegistryProcessLogfile(path) ==
    LET r == PassAfter(Len(attrs), path)
    IN  /\ attrs' = [i \in DOMAIN attrs |->
                        IF i <= Len(r.reads) /\ r.reads[i].raised = ""
                        THEN ProcessMatches(attrs[i], r.reads[i].lines)
                        ELSE attrs[i]]
        /\ cache' = r.cache
        /\ seen' = r.seen
        /\ last' = [op |-> "registry.process_logfile", raised |-> r.raised,
                    reads |-> r.reads,
                    invoked |-> [j \in DOMAIN r.reads |-> attrs[j].name]]
        /\ UNCHANGED <<disk, registered>>

\* an evaluate_all that hands no previous value to any attribute
PrevForNone(previous_values, name) == None

\* the previous value evaluate_all hands to the attribute of this name
PrevFor(previous_values, name) ==
    IF /\ previous_values # None
       /\ DOMAIN previous_values.of # {}
       /\ name \in DOMAIN previous_values.of
    THEN previous_values.of[name]
    ELSE None

\* AttributeRegistry.evaluate_all: the first exception of an evaluate leaves
\* the loop, else the results by name in the dict's order; passed is the
\* prev_value handed to each attribute's evaluate
EvaluateAllOf(as, previous_values) ==
    LET pv  == [i \in DOMAIN as |-> PrevFor(previous_values, as[i].name)]
        rs  == [i \in DOMAIN as |-> AttributeEvaluate(as[i], pv[i])]
        bad == {i \in DOMAIN as : rs[i].raised # ""}
    IN  IF bad = {}
        THEN [raised |-> "", passed |-> pv,
              results |-> [i \in DOMAIN as |-> <<as[i].name, rs[i].status>>]]
        ELSE [raised |-> rs[CHOOSE i \in bad : \A j \in bad : i <= j].raised,
              passed |-> <<>>, results |-> <<>>]

\* Registry.evaluate_all(previous_values)
EvaluateAll(previous_values) ==
    LET r == EvaluateAllOf(attrs, previous_values)
    IN  /\ last' = [op |-> "evaluate_all", previous_values |-> previous_values,
                    raised |-> r.raised, passed |-> r.passed,
                    results |-> r.results]
        /\ UNCHANGED <<disk, cache, attrs, seen, registered>>

\* Registry.list_attributes(): a copy of the dict
ListAttributes ==
    /\ last' = [op |-> "list_attributes", result |-> attrs]
    /\ UNCHANGED <<disk, cache, attrs, seen, registered>>

\* Registry.to_dict(): each attribute's to_dict record under its name
RegistryToDict ==
    /\ last' = [op |-> "registry.to_dict",
                result |-> [i \in DOMAIN attrs |-> <<attrs[i].name, ToDict(attrs[i])>>]]
    /\ UNCHANGED <<disk, cache, attrs, seen, registered>>

\* the path the attributes are pointed at
LogPaths == {"a.log"}

\* one attribute is constructed and registered, then used on its own
NextAttr ==
    \/ \E a \in Catalogue : attrs = <<>> /\ Register(a)
    \/ \E i \in DOMAIN attrs, path \in LogPaths : AttrProcessLogfile(i, path)
    \/ \E i \in DOMAIN attrs, prev \in PrevValues : AttrEvaluate(i, prev)
    \/ \E i \in DOMAIN attrs : AttrRoundTrip(i)
    \/ \E prev \in PrevMaps : EvaluateAll(prev)
    \/ \E path \in LogPaths, text \in Files : WriteFile(path, text)
    \/ \E path \in LogPaths : RemoveFile(path)
    \/ \E arg \in {Str(p) : p \in LogPaths} \cup {None} : ClearCache(arg)

SpecAttr == Init /\ [][NextAttr]_vars

\* the registry of create_registry, processed and evaluated as a whole, and
\* the operations that read it or the attributes it holds
Next ==
    \/ \E a \in Roster : Register(a)
    \/ \E name \in GetNames : GetAttribute(name)
    \/ ListAttributes
    \/ RegistryToDict
    \/ \E i \in DOMAIN attrs, prev \in PrevValues : AttrEvaluate(i, prev)
    \/ \E i \in DOMAIN attrs : AttrRoundTrip(i)
    \/ \E path \in LogPaths : RegistryProcessLogfile(path)
    \/ \E prev \in PrevMaps : EvaluateAll(prev)
    \/ \E path \in LogPaths, text \in Files : WriteFile(path, text)
    \/ \E path \in LogPaths : RemoveFile(path)
    \/ \E arg \in {Str(p) : p \in LogPaths} \cup {None} : ClearCache(arg)

Spec == Init /\ [][Next]_vars

(***************************************************************************)
(* The cached reader.                                                      *)
(***************************************************************************)
\* the calls that read through the cached reader
HasReads(call) ==
    call.op \in {"process_log", "attribute.process_logfile", "registry.process_logfile"}

\* C2: once a path was read, every later read of it before an invalidation
\* succeeds without a disk read, whatever the pattern, and every read returns
\* the matching lines of the file as it was when first read, so that two reads
\* with the same pattern return the same lines even if the file changed
C2_CachedReadsStayOffDisk ==
    HasReads(last) =>
        \A i \in DOMAIN last.reads :
            LET r == last.reads[i]
            IN  /\ r.again => r.raised = "" /\ ~r.diskRead
                /\ r.raised = "" => r.lines = MatchingLines(seen[r.path], r.pattern)

\* a later read served from the cache although the file has changed since
C2_Witness ==
    /\ last.op = "process_log"
    /\ last.reads[1].again
    /\ ~last.reads[1].diskRead
    /\ last.reads[1].lines # <<>>
    /\ last.reads[1].path \in DOMAIN disk
    /\ FileLines[disk[last.reads[1].path]] # seen[last.reads[1].path]

\* C3: clear_cache with a path removes that path's entry and leaves every
\* other entry as it was; with None it empties the cache; the next read of a
\* path that is not cached reads the file and returns its current contents
C3_InvalidateRemovesOnlyThatPath ==
    [][/\ last'.op = "clear_cache" =>
             IF last'.arg # None
             THEN cache' = [q \in DOMAIN cache \ {last'.arg.s} |-> cache[q]]
             ELSE cache' = EmptyMap
       /\ last'.op = "process_log" =>
             LET r == last'.reads[1]
             IN  (r.path \notin DOMAIN cache /\ r.path \in DOMAIN disk) =>
                     /\ r.diskRead
                     /\ r.lines = MatchingLines(FileLines[disk[r.path]], r.pattern)
                     /\ cache'[r.path] = FileLines[disk[r.path]]]_vars

\* C4: a read raises FileNotFoundError exactly when the path is neither
\* cached nor on disk; a cached path is served from the cache whether or not
\* the file still exists; a read that raises leaves the cache as it was
C4_NotFoundIffAbsentAndUncached ==
    [][last'.op = "process_log" =>
          LET r == last'.reads[1]
          IN  /\ r.raised = "FileNotFoundError"
                    <=> (r.path \notin DOMAIN disk /\ r.path \notin DOMAIN cache)
              /\ r.raised \in {"", "FileNotFoundError"}
              /\ r.raised # "" => cache' = cache
              /\ r.path \in DOMAIN cache =>
                    /\ cache' = cache
                    /\ r.lines = MatchingLines(cache[r.path], r.pattern)]_vars

\* a read of a missing, uncached path has failed while another path is cached
C4_Witness ==
    /\ last.op = "process_log"
    /\ last.reads[1].raised = "FileNotFoundError"
    /\ last.reads[1].path # ""
    /\ cache # EmptyMap
(***************************************************************************)
(* Evaluation.                                                             *)
(***************************************************************************)
\* C1: evaluate returns OK when the evaluator returns OK; otherwise ERROR for
\* a CRITICAL attribute and WARNING for a RELAXED one, whether the evaluator
\* returned WARNING or ERROR
C1_EscalationByCriticality ==
    (last.op = "attribute.evaluate" /\ last.raised = "") =>
        /\ last.raw \in Status
        /\ last.raw = "OK" => last.status = "OK"
        /\ (last.raw # "OK" /\ attrs[last.index].criticality = "CRITICAL")
                => last.status = "ERROR"
        /\ (last.raw # "OK" /\ attrs[last.index].criticality = "RELAXED")
                => last.status = "WARNING"

\* the evaluator of a CRITICAL attribute returned WARNING and evaluate ERROR
C1_Witness ==
    /\ last.op = "attribute.evaluate"
    /\ last.raw = "WARNING"
    /\ attrs[last.index].criticality = "CRITICAL"
    /\ last.status = "ERROR"

\* C8: evaluate and evaluate_all raise nothing; an attribute whose value is
\* unset evaluates to OK
C8_EvaluationNeverFails ==
    /\ last.op = "attribute.evaluate" =>
          /\ last.raised = ""
          /\ last.status \in Status
          /\ attrs[last.index].value = None => last.status = "OK"
    /\ last.op = "evaluate_all" =>
          /\ last.raised = ""
          /\ Len(last.results) = Len(attrs)
          /\ \A i \in DOMAIN attrs :
                /\ last.results[i][2] \in Status
                /\ attrs[i].value = None => last.results[i][2] = "OK"

\* an unset CRITICAL attribute with a threshold evaluator was evaluated
C8_Witness ==
    /\ last.op = "attribute.evaluate"
    /\ attrs[last.index].value = None
    /\ attrs[last.index].evaluator = "evaluate_status_code"
    /\ attrs[last.index].criticality = "CRITICAL"
    /\ last.status = "OK"

(***************************************************************************)
(* The registry-wide pass.                                                 *)
(***************************************************************************)
\* C5: in a registry-wide pass process_logfile is run on every registered
\* attribute, also when the extraction of one of them raises
C5_FailureDoesNotAbortThePass ==
    last.op = "registry.process_logfile" =>
        last.invoked = [i \in DOMAIN attrs |-> attrs[i].name]

(***************************************************************************)
(* Serialisation.                                                          *)
(***************************************************************************)
\* C6: the attribute rebuilt from an attribute's to_dict record is of the
\* same class and has the same name, criticality and value, set or unset
C6_RoundTripPreservesIdentityAndValue ==
    last.op = "round_trip" =>
        /\ last.raised = ""
        /\ last.copy.cls = attrs[last.index].cls
        /\ last.copy.name = attrs[last.index].name
        /\ last.copy.criticality = attrs[last.index].criticality
        /\ last.copy.value = attrs[last.index].value

\* a complex attribute holding a summary record went through the round trip
C6_Witness ==
    /\ last.op = "round_trip"
    /\ attrs[last.index].cls = "ComplexAttribute"
    /\ attrs[last.index].value # None
    /\ last.copy.value = attrs[last.index].value

(***************************************************************************)
(* Extraction.                                                             *)
(***************************************************************************)
\* the last call was process_logfile of one attribute and raised nothing
Processed == last.op = "attribute.process_logfile" /\ last.raised = ""

\* the lines of the cached file that match the processed attribute's name
MatchesOfLast ==
    MatchingLines(cache[last.reads[1].path], Str(attrs[last.index].name))

\* C7 as stated: with no matching line every variant but Count leaves an
\* unset value unset, and Count sets 0
C7_OnlyCountSetsWithoutMatches ==
    (Processed /\ MatchesOfLast = <<>>) =>
        IF attrs[last.index].cls = "CountAttribute"
        THEN attrs[last.index].value = PyInt(0)
        ELSE last.before = None => attrs[last.index].value = None

\* C7 amended: with no matching line Scalar and Complex leave an unset value
\* unset, Count sets 0 and Accumulator sets 0.0
C7_ScalarAndComplexStayUnset ==
    (Processed /\ MatchesOfLast = <<>>) =>
        CASE attrs[last.index].cls = "CountAttribute" ->
                attrs[last.index].value = PyInt(0)
          [] attrs[last.index].cls = "AccumulatorAttribute" ->
                attrs[last.index].value = PyFloat(0, 1)
          [] OTHER ->
                last.before = None => attrs[last.index].value = None

\* a complex attribute was processed on a file without a matching line
C7_Witness ==
    /\ Processed
    /\ MatchesOfLast = <<>>
    /\ cache[last.reads[1].path] # <<>>
    /\ attrs[last.index].cls = "ComplexAttribute"
    /\ attrs[last.index].value = None

\* C9: after a scalar extraction with matches whose last one parses, the value
\* is the number after the last ':' of the last matching line
C9_ScalarTakesLastMatch ==
    (/\ Processed
     /\ attrs[last.index].cls = "NumericAttribute"
     /\ MatchesOfLast # <<>>
     /\ ExtractFloat(MatchesOfLast[Len(MatchesOfLast)]).ok) =>
        attrs[last.index].value = ExtractFloat(MatchesOfLast[Len(MatchesOfLast)]).v

\* a scalar extraction over several matches whose first and last differ
C9_Witness ==
    /\ Processed
    /\ attrs[last.index].cls = "NumericAttribute"
    /\ Len(MatchesOfLast) >= 2
    /\ ExtractFloat(MatchesOfLast[1]).ok
    /\ ExtractFloat(MatchesOfLast[1]).v # attrs[last.index].value
    /\ ExtractFloat(MatchesOfLast[Len(MatchesOfLast)]).v = attrs[last.index].value

\* C10: after an accumulator extraction the value is the sum, from zero, of
\* the matching lines that parse, whatever the value was before
C10_AccumulatorSumsParsableLines ==
    (Processed /\ attrs[last.index].cls = "AccumulatorAttribute") =>
        attrs[last.index].value = ToFloat(Sum(ParsedValues(MatchesOfLast)))

\* an accumulator that held another value summed a file with an unparsable
\* matching line
C10_Witness ==
    /\ Processed
    /\ attrs[last.index].cls = "AccumulatorAttribute"
    /\ last.before # None
    /\ last.before # attrs[last.index].value
    /\ Len(ParsedValues(MatchesOfLast)) >= 2
    /\ Len(ParsedValues(MatchesOfLast)) < Len(MatchesOfLast)
    /\ attrs[last.index].value = PyFloat(4, 1)

\* C11: after a count extraction that returned, the value is set and is the
\* number of lines of the cached file that match the name, 0 when none does,
\* whatever the value was before
C11_CountIsNumberOfMatches ==
    (Processed /\ attrs[last.index].cls = "CountAttribute") =>
        /\ attrs[last.index].value # None
        /\ attrs[last.index].value = PyInt(Len(MatchesOfLast))
        /\ MatchesOfLast = <<>> => attrs[last.index].value = PyInt(0)

\* a count that held a positive number went to 0 on a file without a match
C11_Witness ==
    /\ Processed
    /\ attrs[last.index].cls = "CountAttribute"
    /\ last.before # None
    /\ last.before # PyInt(0)
    /\ cache[last.reads[1].path] # <<>>
    /\ MatchesOfLast = <<>>
    /\ attrs[last.index].value = PyInt(0)

\* C12: a complex extraction hands the matching lines to the reducer only when
\* there is one: without a match nothing is filled in, so that an unset value
\* stays unset, and a value that changed is the reducer's record of a non-empty
\* match set
C12_ReducerOnlyOnMatches ==
    (Processed /\ attrs[last.index].cls = "ComplexAttribute") =>
        /\ MatchesOfLast = <<>> => attrs[last.index].value = last.before
        /\ (MatchesOfLast = <<>> /\ last.before = None) =>
                /\ attrs[last.index].value = None
                /\ attrs[last.index].value # Dict(<<>>)
        /\ attrs[last.index].value # last.before =>
                /\ MatchesOfLast # <<>>
                /\ attrs[last.index].value = Processor(attrs[last.index].fn, MatchesOfLast)

\* an unset complex attribute stayed unset on a file without a match, where
\* its reducer would have returned a record
C12_Witness ==
    /\ Processed
    /\ attrs[last.index].cls = "ComplexAttribute"
    /\ last.before = None
    /\ cache[last.reads[1].path] # <<>>
    /\ MatchesOfLast = <<>>
    /\ Processor(attrs[last.index].fn, MatchesOfLast) # None
    /\ attrs[last.index].value = None

(***************************************************************************)
(* The registry.                                                           *)
(***************************************************************************)
\* what an attribute is constructed with
Ident(a) == [cls |-> a.cls, name |-> a.name, criticality |-> a.criticality,
             evaluator |-> a.evaluator, fn |-> a.fn]

\* the name was registered at some time
WasRegistered(name) == \E k \in DOMAIN registered : registered[k].name = name

\* the last registration under a name that was registered
LastRegistered(name) ==
    registered[CHOOSE k \in DOMAIN registered : registered[k].name = name]

\* C13: the registry holds at most one attribute per name; get_attribute
\* returns the attribute registered last under the name, returns None for a
\* name that was never registered, and leaves the registry as it was
C13_LastRegistrationWins ==
    [][/\ \A i, j \in DOMAIN attrs' : attrs'[i].name = attrs'[j].name => i = j
       /\ last'.op = "get_attribute" =>
             /\ attrs' = attrs
             /\ IF WasRegistered(last'.name)
                THEN /\ last'.result # None
                     /\ Ident(last'.result) = Ident(LastRegistered(last'.name))
                ELSE last'.result = None]_vars

\* get_attribute returned the attribute that replaced another one under its
\* name: it was registered after the attribute of the second name and holds
\* the first place in the dict
C13_Witness ==
    /\ last.op = "get_attribute"
    /\ last.result # None
    /\ Len(attrs) = 2
    /\ attrs[1].name = last.name
    /\ registered[2].name = last.name
    /\ last.result.cls = "CountAttribute"

\* C14: a registry-wide pass runs process_logfile exactly once on every
\* registered attribute, in the order in which the attributes the registry
\* holds were registered
C14_PassInRegistrationOrder ==
    last.op = "registry.process_logfile" =>
        last.invoked = [k \in DOMAIN registered |-> registered[k].name]

\* the entry of previous_values for a name, None when previous_values is
\* None or has no such entry
EntryOf(previous_values, name) ==
    IF previous_values = None THEN None
    ELSE IF name \in DOMAIN previous_values.of THEN previous_values.of[name]
    ELSE None

\* C15: evaluate_all returns one entry for each registered name and no
\* other; the entry of a name is the status that attribute's evaluate gives
\* when it is handed the name's entry of previous_values, or None when
\* previous_values is None, is empty or has no entry for the name
C15_EvaluateAllByName ==
    last.op = "evaluate_all" =>
        /\ last.raised = ""
        /\ {last.results[i][1] : i \in DOMAIN last.results}
                = {attrs[i].name : i \in DOMAIN attrs}
        /\ Len(last.results) = Cardinality({attrs[i].name : i \in DOMAIN attrs})
        /\ \A i \in DOMAIN attrs :
              /\ last.results[i][1] = attrs[i].name
              /\ last.passed[i] = EntryOf(last.previous_values, attrs[i].name)
              /\ last.results[i][2] =
                    AttributeEvaluate(attrs[i],
                        EntryOf(last.previous_values, attrs[i].name)).status

\* two attributes were evaluated with previous values for one name only, and
\* one of the statuses is not OK
C15_Witness ==
    /\ last.op = "evaluate_all"
    /\ Len(attrs) = 2
    /\ last.previous_values # None
    /\ last.passed[1] # None
    /\ last.passed[2] = None
    /\ last.results[1][2] # "OK"
    /\ last.results[2][2] = "OK"

(***************************************************************************)
(* What the operations leave alone.                                        *)
(***************************************************************************)
\* C16: a registered attribute starts with an unset value; no operation
\* changes the name or the criticality of an attribute the registry holds,
\* and a value changes only in a process_logfile pass that ran the
\* attribute's extraction without raising: get_attribute, list_attributes,
\* evaluate, evaluate_all and to_dict leave every value as it was
C16_ValueChangesOnlyByExtraction ==
    [][IF last'.op = "register_attribute"
       THEN \A i \in DOMAIN attrs' :
                IF attrs'[i].name = last'.name
                THEN attrs'[i].value = None
                ELSE attrs'[i] \in {attrs[j] : j \in DOMAIN attrs}
       ELSE /\ DOMAIN attrs' = DOMAIN attrs
            /\ \A i \in DOMAIN attrs :
                  /\ attrs'[i].name = attrs[i].name
                  /\ attrs'[i].criticality = attrs[i].criticality
                  /\ attrs'[i].value # attrs[i].value =>
                        /\ last'.op = "registry.process_logfile"
                        /\ i <= Len(last'.reads)
                        /\ last'.reads[i].raised = ""]_vars

\* the registry was serialised while it held two attributes with values, one
\* of them a summary record
C16_Witness ==
    /\ last.op = "registry.to_dict"
    /\ Len(attrs) = 2
    /\ attrs[1].value # None
    /\ attrs[2].value # None
    /\ attrs[2].cls = "ComplexAttribute"
    /\ last.result[2][2].value = JsonDumps(attrs[2].value)

\* the call was a pass of a scalar or complex attribute that held a value,
\* on a file where no line matches or, for a scalar, where the last matching
\* line does not parse
PassWithoutResultOf(as, c, call) ==
    /\ call.op = "attribute.process_logfile"
    /\ call.raised = ""
    /\ as[call.index].cls \in {"NumericAttribute", "ComplexAttribute"}
    /\ call.before # None
    /\ LET ms == MatchingLines(c[call.reads[1].path], Str(as[call.index].name))
       IN  \/ ms = <<>>
           \/ /\ as[call.index].cls = "NumericAttribute"
              /\ ~FloatOfLine(ms[Len(ms)]).ok

PassWithoutResult == PassWithoutResultOf(attrs, cache, last)

\* C17: such a pass leaves the value as it was before the pass, and an
\* evaluate that follows gives the status of the earlier value
C17_EarlierValueSurvives ==
    [][/\ PassWithoutResultOf(attrs', cache', last') =>
             attrs'[last'.index].value = last'.before
       /\ (PassWithoutResult /\ last'.op = "attribute.evaluate"
                             /\ last'.index = last.index) =>
             /\ last'.raised = ""
             /\ last'.status =
                   AttributeEvaluate(fill_value(attrs[last.index], last.before),
                                     last'.previous_value).status]_vars

\* a scalar that held a value kept it on a file whose first matching line
\* parses to another value and whose last matching line does not parse
C17_Witness ==
    /\ PassWithoutResult
    /\ attrs[last.index].cls = "NumericAttribute"
    /\ Len(MatchesOfLast) >= 2
    /\ ExtractFloat(MatchesOfLast[1]).ok
    /\ ExtractFloat(MatchesOfLast[1]).v # last.before
    /\ attrs[last.index].value = last.before
====
